---- MODULE Spec2Model ----
(***************************************************************************)
(* Station control plane of aircox: the process supervisor (Streamer of    *)
(* aircox/controllers.py), the telnet Connector and the Sources of         *)
(* liquidsoap/utils.py, and the playlist Source of aircox/controllers.py.  *)
(*                                                                         *)
(* Each component has a specification of its own (SpecProc, ...): the      *)
(* variables of the other components keep their initial value there.       *)
(* Every operation is one action; `op` records which operation ran last    *)
(* and with which inputs, `trace` the external effects it had, in the      *)
(* order the code performs them.                                           *)
(***************************************************************************)
EXTENDS Naturals, Sequences, FiniteSets, TLC

VARIABLES
    \* ---- operating system, as seen by the supervisors of one station
    procs,      \* pid -> "unborn" | "alive" | "dead"
    bound,      \* pids with a connection whose laddr is the station's socket path
    sockFile,   \* os.path.exists(socket_path)
    \* ---- one Streamer per supervising program
    process,    \* supervisor -> pid of the Popen handle held, or None
    hooks,      \* supervisor -> number of atexit hooks registered
    waiting,    \* supervisor -> blocked inside process.wait()
    \* ---- Connector and the engine behind its socket
    available,  \* Connector.__available
    engine,     \* the engine's interactive variables: name -> "true" | "false"
    net,        \* the connection of Connector.__socket: the bytes the engine
                \* has written and recv has not returned yet, and whether
                \* the engine still holds its end open
    rx,         \* the send() call in progress, between two recv calls
    \* ---- Sources of liquidsoap/utils.py
    metadata,   \* source -> BaseSource.metadata (None, or a dict)
    \* ---- playlist Source of aircox/controllers.py
    playlist,   \* Source.__playlist, a sequence of paths
    file,       \* the content of the file at Source.path, or NoFile
    writer,     \* a push()/write() in progress on that file: its position
                \* and the text it has still to write
    \* ---- Streamer of aircox/controllers.py and its station's sources
    streamer,   \* current_sound, current_source, and each source's rid and
                \* metadata
    \* ---- bookkeeping shared by all specifications
    op,         \* the operation that ran last, with its inputs (for
                \* process_run: held = a handle was held, zombies = the pids
                \* bound to the socket path when it was called)
    trace       \* its external effects, in program order

procVars == <<procs, bound, sockFile, process, hooks, waiting>>
rpcVars == <<available, engine>>

\* what the actions of one component leave alone
metaVars == <<metadata>>
listVars == <<playlist, file>>
fileVars == <<writer>>
fetchVars == <<streamer>>
recvVars == <<net, rx>>
notProc == <<rpcVars, metaVars, listVars, fileVars, fetchVars, recvVars>>
notRpc == <<procVars, metaVars, listVars, fileVars, fetchVars, recvVars>>
notMeta == <<procVars, rpcVars, listVars, fileVars, fetchVars, recvVars>>
notList == <<procVars, rpcVars, metaVars, fileVars, fetchVars, recvVars>>

vars == <<procs, bound, sockFile, process, hooks, waiting, available, engine,
          net, rx, metadata, playlist, file, writer, streamer, op, trace>>

\* ------------------------------------------------------------------ bounds
MaxPid == 2
\* most connections accepted on the station's socket that are open when
\* process_run lists the sockets
MaxExtra == 1

\* ----------------------------------------------------------------- helpers
None == 0
Pids == 1..MaxPid
Sup == {"s1", "s2"}

Ev(e, pid, arg) == [e |-> e, pid |-> pid, arg |-> arg]

Range(s) == {s[i] : i \in 1..Len(s)}

\* a file: whether it exists, and its content
NoFile == [exists |-> FALSE, text |-> ""]
FileOf(s) == [exists |-> TRUE, text |-> s]

\* '\n'.join(q)
RECURSIVE join(_)
join(q) ==
    IF q = <<>> THEN ""
    ELSE IF Len(q) = 1 THEN q[1]
    ELSE q[1] \o "\n" \o join(Tail(q))

\* Source.push: the text written to the playlist file
push_text(q) == join(q)

\* station.sources, in iteration order: the dealer and one stream
Sources == <<"dealer", "stream">>
NumFiles == Len(Sources) + 1

\* ======================================================================
\* Process supervisor: Streamer, aircox/controllers.py
\* ======================================================================

\* Mutant: push writes no file.
push_nothing(failAt) == <<>>

\* Streamer.push: every source's playlist file, then the configuration file.
\* failAt = 0: every write succeeds; failAt = k: the k-th open/write raises,
\* and the writes after it are never attempted.
push(failAt) ==
    LET all == [i \in 1..NumFiles |->
                   IF i <= Len(Sources) THEN Ev("write", None, Sources[i])
                   ELSE Ev("write", None, "station.liq")]
    IN IF failAt = 0 THEN all ELSE SubSeq(all, 1, failAt - 1)

\* conn.pid of a socket of process p in the listing of psutil: None when
\* psutil cannot tell whose socket it is (p is in unseen: it runs as another
\* user and the supervisor has no right to read its descriptors)
conn_pid(p, unseen) == IF p \in unseen THEN None ELSE p

\* the listings psutil.net_connections can give of the processes S bound to
\* the socket path: one entry per socket, so every process of S at least
\* once (its server socket), up to MaxExtra entries more (the connections
\* accepted on it), in any order
Listings(S) ==
    {q \in UNION {[1..n -> S] : n \in Cardinality(S)..(Cardinality(S) + MaxExtra)} :
        Range(q) = S}

\* for conn in conns: if conn.pid is not None: os.kill(conn.pid, SIGKILL):
\* the pids killed, in the order of the listing zs
kills(zs, unseen) ==
    SelectSeq([i \in 1..Len(zs) |-> conn_pid(zs[i], unseen)],
              LAMBDA pid : pid # None)

\* Streamer.__check_for_zombie: the lists of pids it can send SIGKILL to.
\* It returns at once when the socket file does not exist; otherwise it
\* goes through the listing of the sockets bound to the path, whatever
\* listing psutil gives and whichever pids it cannot tell.
check_for_zombie ==
    IF ~sockFile THEN {<<>>}
    ELSE {kills(zs, unseen) : zs \in Listings(bound), unseen \in SUBSET bound}

\* Mutant: a kill signal that ends no process.
killed_nobody(ps, K) == ps

\* os.kill(pid, SIGKILL) / Popen.kill() on a set of pids
killed(ps, K) == [p \in Pids |-> IF p \in K /\ ps[p] = "alive" THEN "dead" ELSE ps[p]]

FreePids == {p \in Pids : procs[p] = "unborn"}
NewPid == CHOOSE p \in FreePids : \A q \in FreePids : p <= q

\* The effects of process_run after a successful push, in program order:
\* kill every zombie, Popen, atexit.register.
run_effects(zs, p) ==
    [i \in 1..Len(zs) |-> Ev("kill", zs[i], "")]
        \o <<Ev("launch", p, ""), Ev("hook", None, "")>>

\* Mutant: process_run does not look at the handle.
handle_held_never(s) == FALSE

\* `if self.process:` - a Popen object is true whether its process lives or not
handle_held(s) == process[s] # None

\* the prefixes of a text
Prefixes(text) == {SubSeq(text, 1, n) : n \in 0..Len(text)}

\* What Streamer.push leaves in the playlist file of the stream. When the
\* write of that file is the one that raises, the file is as it was (makedirs
\* or open raised), or open has truncated it and any part of the text
\* reached it before the error (disk full, file size limit).
push_file(failAt) ==
    IF failAt = 0
          \/ \E i \in 1..(failAt - 1) : i <= Len(Sources) /\ Sources[i] = "stream"
    THEN {FileOf(push_text(playlist))}
    ELSE IF failAt <= Len(Sources) /\ Sources[failAt] = "stream"
    THEN {file} \cup {FileOf(t) : t \in Prefixes(push_text(playlist))}
    ELSE {file}

\* Streamer.push() called by itself (the station is saved, a playlist is
\* regenerated); failAt as in push
Streamer_push(failAt) ==
    /\ op' = [name |-> "push", sup |-> "", held |-> FALSE, zombies |-> {},
              raised |-> failAt # 0]
    /\ trace' = push(failAt)
    /\ file' \in push_file(failAt)
    /\ UNCHANGED <<procVars, rpcVars, metaVars, playlist, fileVars, fetchVars,
                   recvVars>>

\* Streamer.process_run; `file` is the playlist file of the stream, which
\* push writes. Inputs: failAt, the write of push that raises (0: none); ks,
\* the kills __check_for_zombie has to make; failKill, the place among them
\* of a process that is gone by then (it exited since the listing, or an
\* earlier kill ended it and it was reaped), so that os.kill raises (0:
\* none); popen_ok, subprocess.Popen finds and starts the executable.
process_run(s, failAt) ==
    /\ ~waiting[s]
    /\ UNCHANGED <<rpcVars, metaVars, playlist, fileVars, fetchVars, recvVars>>
    /\ IF handle_held(s)
       THEN /\ op' = [name |-> "process_run", sup |-> s, held |-> TRUE,
                      zombies |-> bound, raised |-> FALSE, at |-> ""]
            /\ trace' = <<>>
            /\ UNCHANGED <<procVars, file>>
       ELSE IF failAt # 0
       THEN \* push raised: the exception leaves process_run
            /\ op' = [name |-> "process_run", sup |-> s, held |-> FALSE,
                      zombies |-> bound, raised |-> TRUE, at |-> "push"]
            /\ trace' = push(failAt)
            /\ file' \in push_file(failAt)
            /\ UNCHANGED procVars
       ELSE /\ file' \in push_file(0)
            /\ \E ks \in check_for_zombie,
                  failKill \in 0..(MaxPid + MaxExtra), popen_ok \in BOOLEAN :
                 /\ failKill <= Len(ks)
                 /\ IF failKill # 0
                    THEN \* os.kill raised ProcessLookupError
                         /\ popen_ok
                         /\ op' = [name |-> "process_run", sup |-> s,
                                   held |-> FALSE, zombies |-> bound,
                                   raised |-> TRUE, at |-> "kill"]
                         /\ trace' = push(0) \o
                               [i \in 1..(failKill - 1) |-> Ev("kill", ks[i], "")]
                         /\ procs' = killed(procs, {ks[i] : i \in 1..failKill})
                         /\ bound' = bound \ {ks[i] : i \in 1..failKill}
                         /\ UNCHANGED <<sockFile, process, hooks, waiting>>
                    ELSE IF ~popen_ok
                    THEN \* Popen raised: no executable
                         /\ op' = [name |-> "process_run", sup |-> s,
                                   held |-> FALSE, zombies |-> bound,
                                   raised |-> TRUE, at |-> "Popen"]
                         /\ trace' = push(0) \o
                               [i \in 1..Len(ks) |-> Ev("kill", ks[i], "")]
                         /\ procs' = killed(procs, Range(ks))
                         /\ bound' = bound \ Range(ks)
                         /\ UNCHANGED <<sockFile, process, hooks, waiting>>
                    ELSE /\ FreePids # {}
                         /\ op' = [name |-> "process_run", sup |-> s,
                                   held |-> FALSE, zombies |-> bound,
                                   raised |-> FALSE, at |-> ""]
                         /\ trace' = push(0) \o run_effects(ks, NewPid)
                         /\ procs' = [killed(procs, Range(ks)) EXCEPT ![NewPid] = "alive"]
                         /\ bound' = bound \ Range(ks)
                         /\ process' = [process EXCEPT ![s] = NewPid]
                         /\ hooks' = [hooks EXCEPT ![s] = @ + 1]
                         /\ UNCHANGED <<sockFile, waiting>>

process_terminate(s) ==
    /\ ~waiting[s]
    /\ UNCHANGED notProc
    /\ op' = [name |-> "process_terminate", sup |-> s, held |-> process[s] # None,
              zombies |-> {}, raised |-> FALSE,
              again |-> (op.name = "process_terminate" /\ op.sup = s)]
    /\ IF handle_held(s)
       THEN /\ trace' = <<Ev("kill", process[s], "")>>
            /\ procs' = killed(procs, {process[s]})
            /\ bound' = bound \ {process[s]}
            /\ process' = [process EXCEPT ![s] = None]
            /\ UNCHANGED <<sockFile, hooks, waiting>>
       ELSE /\ trace' = <<>>
            /\ UNCHANGED procVars

\* Mutant: Popen.wait() returns whether the process has exited or not.
exited_or_not(p) == TRUE

\* Popen.wait() returns once the process has exited
exited(p) == procs[p] = "dead"

\* process_wait, up to the point where it returns or blocks in Popen.wait()
process_wait(s) ==
    /\ ~waiting[s]
    /\ UNCHANGED notProc
    /\ op' = [name |-> "process_wait", sup |-> s, held |-> process[s] # None,
              zombies |-> {}, raised |-> FALSE]
    /\ trace' = <<>>
    /\ IF ~handle_held(s)
       THEN UNCHANGED procVars
       ELSE IF exited(process[s])
       THEN /\ process' = [process EXCEPT ![s] = None]
            /\ UNCHANGED <<procs, bound, sockFile, hooks, waiting>>
       ELSE /\ waiting' = [waiting EXCEPT ![s] = TRUE]
            /\ UNCHANGED <<procs, bound, sockFile, process, hooks>>

\* Popen.wait() returns: the process has exited; the handle is cleared
wait_return(s) ==
    /\ waiting[s]
    /\ UNCHANGED notProc
    /\ exited(process[s])
    /\ op' = [name |-> "wait_return", sup |-> s, held |-> TRUE,
              zombies |-> {}, raised |-> FALSE]
    /\ trace' = <<>>
    /\ process' = [process EXCEPT ![s] = None]
    /\ waiting' = [waiting EXCEPT ![s] = FALSE]
    /\ UNCHANGED <<procs, bound, sockFile, hooks>>

\* Mutant: no hook was registered with atexit.
hooks_run_never(s) == FALSE

\* atexit.register(lambda: self.process_terminate()), by every process_run
\* that launched: at exit the hooks registered are called
hooks_run(s) == hooks[s] > 0

\* The supervising program exits, at the end of its work or interrupted
\* while it is blocked in Popen.wait() (KeyboardInterrupt): its atexit hooks
\* run, each one calling process_terminate(); a new program may then be
\* started for the station.
supervisor_exit(s) ==
    /\ UNCHANGED notProc
    /\ op' = [name |-> "supervisor_exit", sup |-> s, held |-> process[s] # None,
              zombies |-> {}, raised |-> FALSE]
    /\ IF hooks_run(s) /\ handle_held(s)
       THEN /\ trace' = <<Ev("kill", process[s], "")>>
            /\ procs' = killed(procs, {process[s]})
            /\ bound' = bound \ {process[s]}
       ELSE /\ trace' = <<>>
            /\ UNCHANGED <<procs, bound>>
    /\ process' = [process EXCEPT ![s] = None]
    /\ hooks' = [hooks EXCEPT ![s] = 0]
    /\ waiting' = [waiting EXCEPT ![s] = FALSE]
    /\ UNCHANGED sockFile

\* The supervising program dies uncleanly (SIGKILL, power loss of the
\* parent only): no hook runs, the engine it launched is left running; a new
\* program started for the station holds no handle.
supervisor_crash(s) ==
    /\ UNCHANGED notProc
    /\ op' = [name |-> "supervisor_crash", sup |-> s, held |-> process[s] # None,
              zombies |-> {}, raised |-> FALSE]
    /\ trace' = <<>>
    /\ process' = [process EXCEPT ![s] = None]
    /\ hooks' = [hooks EXCEPT ![s] = 0]
    /\ waiting' = [waiting EXCEPT ![s] = FALSE]
    /\ UNCHANGED <<procs, bound, sockFile>>

\* The engine opens its telnet server on the station's socket path.
engine_bind(p) ==
    /\ procs[p] = "alive"
    /\ UNCHANGED notProc
    /\ p \notin bound
    /\ op' = [name |-> "engine_bind", sup |-> "", held |-> FALSE,
              zombies |-> {}, raised |-> FALSE]
    /\ trace' = <<>>
    /\ bound' = bound \cup {p}
    /\ sockFile' = TRUE
    /\ UNCHANGED <<procs, process, hooks, waiting>>

\* The socket file is removed while its server still listens: os.unlink by
\* whatever cleans the directory, or by another engine that was bound to
\* the same path and removes the file when it stops. The sockets bound to
\* the path stay listed with it.
socket_unlink ==
    /\ sockFile
    /\ sockFile' = FALSE
    /\ op' = [name |-> "socket_unlink", sup |-> "", held |-> FALSE,
              zombies |-> {}, raised |-> FALSE]
    /\ trace' = <<>>
    /\ UNCHANGED <<procs, bound, process, hooks, waiting>>
    /\ UNCHANGED notProc

\* The engine exits on its own (error in the configuration, crash).
engine_exit(p) ==
    /\ procs[p] = "alive"
    /\ UNCHANGED notProc
    /\ op' = [name |-> "engine_exit", sup |-> "", held |-> FALSE,
              zombies |-> {}, raised |-> FALSE]
    /\ trace' = <<>>
    /\ procs' = [procs EXCEPT ![p] = "dead"]
    /\ bound' = bound \ {p}
    /\ UNCHANGED <<sockFile, process, hooks, waiting>>

\* ======================================================================
\* Connector, liquidsoap/utils.py, and the engine at the other end
\* ======================================================================

\* ------------------------------------------------------------------ bounds
\* Nested send() frames the interpreter allows (sys.getrecursionlimit(), 1000
\* by default, less the frames of the caller): in the next frame
\* socket.socket() raises RecursionError inside open()'s try.
RecursionLimit == 5
\* Longest command line, in characters, a process that is short of memory
\* can build; a line that grows at every retry outgrows it before the frames
\* run out. A process with memory to spare builds a line of any length.
MaxLineLen == 40
\* largest try_count a caller passes
MaxTry == 2

\* str(n) for the small integers the model uses
IntStr(n) ==
    CASE n = 0 -> "0" [] n = 1 -> "1" [] n = 2 -> "2" [] n = 3 -> "3"
      [] n = 4 -> "4" [] OTHER -> "5"

\* c in s
HasChar(s, c) == \E i \in 1..Len(s) : SubSeq(s, i, i) = c

\* the first index >= i of s that holds the character c; Len(s) + 1 if none
find(s, c, i) ==
    LET hits == {j \in i..Len(s) : SubSeq(s, j, j) = c}
    IN IF hits = {} THEN Len(s) + 1
       ELSE CHOOSE j \in hits : \A h \in hits : j <= h

\* the first index >= i of s that does not hold the character c
skip(s, c, i) ==
    LET hits == {j \in i..Len(s) : SubSeq(s, j, j) # c}
    IN IF hits = {} THEN Len(s) + 1
       ELSE CHOOSE j \in hits : \A h \in hits : j <= h

\* the body of repr(bytes): backslash, newline, carriage return, tab and
\* the quote are written with a backslash (the model's texts hold no other
\* byte outside printable ASCII)
RECURSIVE escape(_, _)
escape(s, q) ==
    IF s = "" THEN ""
    ELSE IF Len(s) > 1
    THEN escape(SubSeq(s, 1, Len(s) \div 2), q)
            \o escape(SubSeq(s, Len(s) \div 2 + 1, Len(s)), q)
    ELSE IF s = "\\" THEN "\\\\"
    ELSE IF s = "\n" THEN "\\n"
    ELSE IF s = "\r" THEN "\\r"
    ELSE IF s = "\t" THEN "\\t"
    ELSE IF s = q THEN "\\" \o s
    ELSE s

\* str(b): what ''.join([str(d) for d in data]) makes of a bytes object
bytes_repr(s) ==
    LET q == IF HasChar(s, "'") /\ ~HasChar(s, "\"") THEN "\"" ELSE "'"
    IN "b" \o q \o escape(s, q) \o q

\* ---- the engine (liquidsoap's telnet server), per line it receives
EngineVars == {"dealer_active", "jazz_active", "radio1_dealer_on"}
Bools == {"true", "false"}
UnknownCommand == "ERROR: unknown command, type \"help\" to get a list of commands."

EngineReply(eng, cmd) ==
    IF \E v \in EngineVars : cmd = "var.get " \o v
    THEN eng[CHOOSE v \in EngineVars : cmd = "var.get " \o v]
    ELSE IF \E v \in EngineVars, b \in Bools : cmd = "var.set " \o v \o "=" \o b
    THEN "Variable " \o (CHOOSE v \in EngineVars :
                            \E b \in Bools : cmd = "var.set " \o v \o "=" \o b)
                     \o " set."
    ELSE IF cmd = "var.list"
    THEN "dealer_active : bool\njazz_active : bool\nradio1_dealer_on : bool"
    ELSE IF cmd = "request.on_air" THEN "1"
    ELSE IF cmd = "request.metadata 1"
    THEN "rid=\"1\"\ninitial_uri=\"a.mp3\"\nsource=\"radio1_stream_1\""
    ELSE IF cmd = "request.metadata 2" THEN "title=\"THE END\""
    \* <id>.get: the metadata of what the source plays, nothing for a source
    \* that has played nothing yet
    ELSE IF cmd = "radio1_stream_1.get"
    THEN "rid=\"1\"\ninitial_uri=\"a.mp3\"\nsource=\"radio1_stream_1\""
    ELSE IF cmd = "radio1_dealer.get"
    THEN "rid=\"2\"\ninitial_uri=\"b.mp3\"\nsource=\"radio1_dealer\""
    ELSE IF cmd = "jazz.get"
    THEN "rid=\"1\"\ninitial_uri=\"a.mp3\""
    ELSE IF cmd \in {"radio1_stream_12.get", "dealer.get"} THEN ""
    ELSE UnknownCommand

EngineStep(eng, cmd) ==
    IF \E v \in EngineVars, b \in Bools : cmd = "var.set " \o v \o "=" \o b
    THEN LET vb == CHOOSE vb \in EngineVars \X Bools :
                       cmd = "var.set " \o vb[1] \o "=" \o vb[2]
         IN [eng EXCEPT ![vb[1]] = vb[2]]
    ELSE eng

\* ---- the transport: what attempt number i of one send() call meets.
\* The first nFail attempts connect and then fail in sendall ("send_err") or
\* in recv ("recv_err"); later attempts succeed (after = "ok") or find the
\* peer gone (after = "refused"). short: the process is short of memory
\* during the call.
Script(nFail, kind, after, short) ==
    [i \in 1..(RecursionLimit + 1) |->
        IF i <= nFail THEN [connect |-> TRUE, io |-> kind, short |-> short]
        ELSE IF after = "ok" THEN [connect |-> TRUE, io |-> "ok", short |-> short]
        ELSE [connect |-> FALSE, io |-> "send_err", short |-> short]]

\* ---- values send() returns
RetStr(s) == [kind |-> "str", text |-> s]
RetDict(s) == [kind |-> "dict", text |-> s]
RetNone == [kind |-> "None", text |-> ""]

SendResult(ret, raised, avail, eng, wire) ==
    [ret |-> ret, raised |-> raised, avail |-> avail, eng |-> eng, wire |-> wire]

\* What the except clause resends: self.send(data, try_count - 1). `data` is
\* the local variable, by then the bytes of the line (sendall raised) or the
\* text received so far (recv raised), and try_count - 1 is passed as one more
\* part of the command: try_count itself is keyword-only.
retry_args(data, try_count) ==
    [cmd |-> data \o IntStr(try_count - 1), try_count |-> 1, parse |-> FALSE]

\* Connector.send(*data, try_count, parse), a = [cmd, try_count, parse] with
\* cmd = ''.join(data); one level of the recursion per attempt.
RECURSIVE send(_, _, _, _, _, _)
send(a, avail, eng, wire, script, depth) ==
    IF depth > RecursionLimit
    THEN \* open(): socket.socket() raises RecursionError, the bare except
         \* turns it into -1, and send returns ''
         SendResult(RetStr(""), "", FALSE, eng, wire)
    ELSE
    LET o == script[depth]
    IN  \* open(): a connection error gives -1, and send returns ''
        IF ~avail /\ ~o.connect
        THEN SendResult(RetStr(""), "", FALSE, eng,
                        wire \o <<Ev("refused", None, "")>>)
        ELSE
        LET line  == a.cmd \o "\n"
            wire0 == wire \o (IF avail THEN <<>> ELSE <<Ev("connect", None, "")>>)
            wire1 == wire0 \o <<Ev("sendall", None, line)>>
            \* a socket whose peer is gone fails at the write
            io    == IF o.connect THEN o.io ELSE "send_err"
            eng1  == IF io = "send_err" THEN eng ELSE EngineStep(eng, a.cmd)
            data  == IF io = "send_err" THEN bytes_repr(line) ELSE ""
        IN  IF o.short /\ Len(line) > MaxLineLen
            THEN \* building the line raises MemoryError, outside the try
                 SendResult(RetNone, "MemoryError", TRUE, eng, wire0)
            ELSE IF io = "ok"
            THEN SendResult(IF a.parse THEN RetDict(EngineReply(eng, a.cmd))
                            ELSE RetStr(EngineReply(eng, a.cmd)),
                            "", TRUE, eng1, wire1)
            ELSE IF a.try_count > 0
            THEN send(retry_args(data, a.try_count), FALSE, eng1, wire1,
                      script, depth + 1)
            ELSE SendResult(RetNone, "", FALSE, eng1, wire1)

Cmds == {"var.list", "var.get jazz_active", "var.set jazz_active=true"}

\* The caller's position: an operation of the Connector or of a Source is
\* called when the previous one has returned.
Idle == op.name = "idle"
IdleOp == [name |-> "idle"]

\* what one call meets on the transport, the process having memory to
\* spare; and, the process being short of memory, a transport that lets the
\* line grow: sendall fails at every attempt
Transports ==
    {<<k, kind, after, FALSE>> : k \in 0..RecursionLimit,
                                 kind \in {"send_err", "recv_err"},
                                 after \in {"ok", "refused"}}
        \cup {<<RecursionLimit, "send_err", "refused", TRUE>>}

\* no attempt of the call fails
TransportOk(tr) == tr[1] = 0 /\ tr[3] = "ok"

Connector_send(cmd, try_count, parse, tr) ==
    LET r == send([cmd |-> cmd, try_count |-> try_count, parse |-> parse],
                  available, engine, <<>>, Script(tr[1], tr[2], tr[3], tr[4]), 1)
    IN /\ Idle
       /\ op' = [name |-> "send", cmd |-> cmd, try_count |-> try_count,
                 parse |-> parse, tr |-> tr, was_available |-> available,
                 reply |-> EngineReply(engine, cmd),
                 ret |-> r.ret, raised |-> r.raised]
       /\ trace' = r.wire
       /\ available' = r.avail
       /\ engine' = r.eng
       /\ UNCHANGED notRpc

\* Mutant: open() does not look at __available.
already_available_never(avail) == FALSE

\* if self.__available: return
already_available(avail) == avail

\* Connector.open(); connects: the connect of the new socket succeeds
Connector_open(connects) ==
    /\ Idle
    /\ op' = [name |-> "open", was_available |-> available,
              connects |-> connects, raised |-> "",
              ret |-> IF already_available(available) \/ connects THEN "None"
                      ELSE "-1"]
    /\ IF already_available(available)
       THEN /\ trace' = <<>>
            /\ available' = available
       ELSE /\ trace' = <<Ev("socket", None, ""),
                          Ev(IF connects THEN "connect" ELSE "refused", None, "")>>
            /\ available' = connects
    /\ UNCHANGED <<engine, notRpc>>

\* != ''
ready_value(ret) == ret # RetStr("")

\* Streamer.ready(): self._send('var.list') != ''
ready(tr) ==
    LET r == send([cmd |-> "var.list", try_count |-> 1, parse |-> FALSE],
                  available, engine, <<>>, Script(tr[1], tr[2], tr[3], tr[4]), 1)
    IN /\ Idle
       /\ op' = [name |-> "ready", tr |-> tr, was_available |-> available,
                 sent |-> r.ret, raised |-> r.raised,
                 ret |-> IF r.raised = "" THEN ready_value(r.ret) ELSE FALSE]
       /\ trace' = r.wire
       /\ available' = r.avail
       /\ engine' = r.eng
       /\ UNCHANGED notRpc

\* the call returns to its caller
op_return ==
    /\ ~Idle
    /\ op' = IdleOp
    /\ trace' = <<>>
    /\ UNCHANGED <<procVars, rpcVars, metaVars, listVars, fileVars, fetchVars,
                   recvVars>>

\* another client of the engine, or the engine's own script, sets a variable
engine_change(v, b) ==
    /\ Idle
    /\ engine[v] # b
    /\ UNCHANGED <<op, trace>>
    /\ engine' = [engine EXCEPT ![v] = b]
    /\ UNCHANGED <<available, notRpc>>

\* ======================================================================
\* Sources of liquidsoap/utils.py: BaseSource, Source, Master
\* ======================================================================
ControllerId == "radio1"

\* Source.__init__: the id of the dealer and of a program's stream
dealer_id == ControllerId \o "_dealer"
stream_id(program) == ControllerId \o "_stream_" \o program

\* the master (a BaseSource: it has no `program` attribute), the dealer
\* (program = None) and the streams of programs 1 and 12
MasterSrc == [id |-> ControllerId, has_program_attr |-> FALSE, program |-> "",
              is_dealer |-> FALSE]
DealerSrc == [id |-> dealer_id, has_program_attr |-> TRUE, program |-> "",
              is_dealer |-> TRUE]
StreamSrc(pr) == [id |-> stream_id(pr), has_program_attr |-> TRUE, program |-> pr,
                  is_dealer |-> FALSE]
Programs == {"1", "12"}
\* the objects of class Source, and all BaseSources
Srcs == {DealerSrc} \cup {StreamSrc(pr) : pr \in Programs}
USources == {MasterSrc} \cup Srcs
SrcOf(i) == CHOOSE s \in USources : s.id = i

\* ---- metadata dicts: functions from keys to strings
NoMeta == [none |-> "None"]
EmptyDict == [k \in {} |-> ""]
MetaFrom(s) == [source |-> s, initial_uri |-> "a.mp3"]
Metas == {EmptyDict} \cup {MetaFrom(s.id) : s \in USources}

\* dict.get(key) or ''
get_or_empty(d, key) == IF key \in DOMAIN d THEN d[key] ELSE ""

\* str.startswith
startswith(s, prefix) ==
    Len(s) >= Len(prefix) /\ SubSeq(s, 1, Len(prefix)) = prefix

\* Mutant: the identity check is applied to every source.
has_program_always(s) == TRUE

\* hasattr(self, 'program') and self.program
has_program(s) == s.has_program_attr /\ s.program # ""

\* BaseSource.update(metadata), metadata given: -1 when the update is
\* rejected, None otherwise
update_rejects(s, md) ==
    has_program(s) /\ ~startswith(get_or_empty(md, "source"), s.id)

update(i, md) ==
    /\ Idle
    /\ op' = [name |-> "update", src |-> i, md |-> md, before |-> metadata[i],
              ret |-> IF update_rejects(SrcOf(i), md) THEN "-1" ELSE "None"]
    /\ trace' = <<>>
    /\ metadata' = IF update_rejects(SrcOf(i), md) THEN metadata
                   ELSE [metadata EXCEPT ![i] = md]
    /\ UNCHANGED notMeta

\* ---- the dealer-only switch
\* Mutant: `on` is not restricted to dealers.
on_allowed_any(s) == TRUE

on_allowed(s) == s.is_dealer

on_get_cmd(s) == "var.get " \o s.id \o "_on"
on_set_cmd(s, value) == "var.set " \o s.id \o "_on" \o "=" \o (IF value THEN "true" ELSE "false")

\* Source.on (getter)
on_get(i, tr) ==
    /\ Idle
    /\ UNCHANGED notRpc
    /\ IF ~on_allowed(SrcOf(i))
       THEN /\ op' = [name |-> "on_get", src |-> i, tr |-> tr, cmd |-> "",
                      calls |-> 0, raised |-> "RuntimeError", ret |-> FALSE]
            /\ trace' = <<>>
            /\ UNCHANGED rpcVars
       ELSE LET r == send([cmd |-> on_get_cmd(SrcOf(i)), try_count |-> 1,
                           parse |-> FALSE],
                          available, engine, <<>>, Script(tr[1], tr[2], tr[3], tr[4]), 1)
            IN /\ op' = [name |-> "on_get", src |-> i, tr |-> tr,
                         cmd |-> on_get_cmd(SrcOf(i)), calls |-> 1,
                         raised |-> r.raised, ret |-> (r.ret = RetStr("true"))]
               /\ trace' = r.wire
               /\ available' = r.avail
               /\ engine' = r.eng

\* Source.on (setter)
on_set(i, value, tr) ==
    /\ Idle
    /\ UNCHANGED notRpc
    /\ IF ~on_allowed(SrcOf(i))
       THEN /\ op' = [name |-> "on_set", src |-> i, tr |-> tr, cmd |-> "",
                      value |-> value, calls |-> 0, raised |-> "RuntimeError"]
            /\ trace' = <<>>
            /\ UNCHANGED rpcVars
       ELSE LET r == send([cmd |-> on_set_cmd(SrcOf(i), value), try_count |-> 1,
                           parse |-> FALSE],
                          available, engine, <<>>, Script(tr[1], tr[2], tr[3], tr[4]), 1)
            IN /\ op' = [name |-> "on_set", src |-> i, tr |-> tr,
                         cmd |-> on_set_cmd(SrcOf(i), value), value |-> value,
                         calls |-> 1, raised |-> r.raised]
               /\ trace' = r.wire
               /\ available' = r.avail
               /\ engine' = r.eng

\* ======================================================================
\* Source of aircox/controllers.py: active flag and playlist
\* ======================================================================

\* Source.id: the program's slug, or 'dealer'
CtlSources == {"dealer", "jazz"}

active_get_cmd(id) == "var.get " \o id \o "_active"
active_set_cmd(id, value) ==
    "var.set " \o id \o "_active" \o "=" \o (IF value THEN "true" ELSE "false")

\* Mutant: the getter answers with the class attribute `active = True`.
active_value_default(ret) == TRUE

\* == 'true'
active_value(ret) == ret = RetStr("true")

\* Source.active (getter)
active_get(id, tr) ==
    LET r == send([cmd |-> active_get_cmd(id), try_count |-> 1, parse |-> FALSE],
                  available, engine, <<>>, Script(tr[1], tr[2], tr[3], tr[4]), 1)
    IN /\ Idle
       /\ op' = [name |-> "active_get", src |-> id, tr |-> tr,
                 cmd |-> active_get_cmd(id), calls |-> 1, sent |-> r.ret,
                 raised |-> r.raised, ret |-> active_value(r.ret)]
       /\ trace' = r.wire
       /\ available' = r.avail
       /\ engine' = r.eng
       /\ UNCHANGED notRpc

\* Source.active (setter)
active_set(id, value, tr) ==
    LET r == send([cmd |-> active_set_cmd(id, value), try_count |-> 1,
                   parse |-> FALSE],
                  available, engine, <<>>, Script(tr[1], tr[2], tr[3], tr[4]), 1)
    IN /\ Idle
       /\ op' = [name |-> "active_set", src |-> id, tr |-> tr, value |-> value,
                 cmd |-> active_set_cmd(id, value), calls |-> 1,
                 raised |-> r.raised]
       /\ trace' = r.wire
       /\ available' = r.avail
       /\ engine' = r.eng
       /\ UNCHANGED notRpc

\* ---- playlist
\* ------------------------------------------------------------------ bounds
\* longest sequence assigned to Source.playlist
MaxLen == 2

\* the strings a caller passes as paths; IsPath: a path is not empty and
\* holds no newline and no carriage return
Strings == {"a", "/b", "", "a\nb", "a\rb"}
IsPath(s) == s # "" /\ ~HasChar(s, "\n") /\ ~HasChar(s, "\r")
Values == UNION {[1..n -> Strings] : n \in 0..MaxLen}
DbValues == UNION {[1..n -> {s \in Strings : IsPath(s)}] : n \in 0..1}

\* ord(c) for the characters of Strings
CharRank(c) ==
    CASE c = "\n" -> 10 [] c = "\r" -> 13 [] c = "/" -> 47 [] c = "a" -> 97
      [] c = "b" -> 98
      [] OTHER -> 0

\* s < t, as Python orders str
RECURSIVE StrLess(_, _)
StrLess(s, u) ==
    IF u = "" THEN FALSE
    ELSE IF s = "" THEN TRUE
    ELSE LET a == CharRank(SubSeq(s, 1, 1))
             b == CharRank(SubSeq(u, 1, 1))
         IN IF a # b THEN a < b
            ELSE StrLess(SubSeq(s, 2, Len(s)), SubSeq(u, 2, Len(u)))

\* insert x into the sorted sequence q, after the elements equal to it
RECURSIVE Insert(_, _)
Insert(q, x) ==
    IF q = <<>> THEN <<x>>
    ELSE IF StrLess(x, Head(q)) THEN <<x>> \o q
    ELSE <<Head(q)>> \o Insert(Tail(q), x)

\* Mutant: the setter does not sort (as Source.playlist of
\* liquidsoap/utils.py).
sorted_not(value) == value

\* sorted(value)
RECURSIVE sorted(_)
sorted(value) ==
    IF value = <<>> THEN <<>>
    ELSE Insert(sorted(SubSeq(value, 1, Len(value) - 1)), value[Len(value)])

\* s.split('\n')
RECURSIVE split(_)
split(s) ==
    LET j == find(s, "\n", 1)
    IN IF j > Len(s) THEN <<s>>
       ELSE <<SubSeq(s, 1, j - 1)>> \o split(SubSeq(s, j + 1, Len(s)))

\* Mutant: the setter writes the file whether the playlist changes or not.
playlist_differs_always(value, current) == TRUE

\* value != self.__playlist
playlist_differs(value, current) == value # current

\* file.read() of a file opened with open(path, 'r'): universal newlines,
\* '\r\n' and '\r' are read as '\n'
RECURSIVE universal_newlines(_)
universal_newlines(s) ==
    IF s = "" THEN ""
    ELSE IF SubSeq(s, 1, 1) # "\r"
    THEN SubSeq(s, 1, 1) \o universal_newlines(SubSeq(s, 2, Len(s)))
    ELSE IF Len(s) >= 2 /\ SubSeq(s, 2, 2) = "\n"
    THEN "\n" \o universal_newlines(SubSeq(s, 3, Len(s)))
    ELSE "\n" \o universal_newlines(SubSeq(s, 2, Len(s)))

\* Source.from_file on the Source's own path: the playlist it leaves
from_file_result(f, current) ==
    IF ~f.exists THEN current
    ELSE IF universal_newlines(f.text) # ""
    THEN split(universal_newlines(f.text)) ELSE <<>>

\* the operation before this one, as the next one records it
Prev(o) == [name |-> o.name, value |-> o.value, differs |-> o.differs]

\* Source.playlist (setter)
playlist_set(value) ==
    LET v == sorted(value)
    IN /\ op' = [name |-> "playlist_set", value |-> value,
                 differs |-> v # playlist,
                 repeats |-> (/\ op.name = "playlist_set" /\ op.differs
                              /\ op.value = value)]
       /\ IF playlist_differs(v, playlist)
          THEN /\ playlist' = v
               /\ file' = FileOf(push_text(v))
               /\ trace' = <<Ev("write", None, push_text(v))>>
          ELSE /\ UNCHANGED <<playlist, file>>
               /\ trace' = <<>>
       /\ UNCHANGED notList

\* Source.from_file()
from_file ==
    /\ op' = [name |-> "from_file", value |-> <<>>, differs |-> FALSE,
              prev |-> Prev(op)]
    /\ trace' = <<>>
    /\ playlist' = from_file_result(file, playlist)
    /\ UNCHANGED <<file, notList>>

\* Source.__init__ of a new object for the same path: __init_playlist loads
\* the file and, when that gives nothing, the paths the database holds (db)
Source_init(db) ==
    LET loaded == from_file_result(file, <<>>)
        v == sorted(db)
    IN /\ op' = [name |-> "Source_init", value |-> db, differs |-> FALSE]
       /\ IF loaded = <<>> /\ playlist_differs(v, loaded)
          THEN /\ playlist' = v
               /\ file' = FileOf(push_text(v))
               /\ trace' = <<Ev("write", None, push_text(v))>>
          ELSE /\ playlist' = loaded
               /\ file' = file
               /\ trace' = <<>>
       /\ UNCHANGED notList

\* ======================================================================
\* Connector.parse, liquidsoap/utils.py
\* ======================================================================
\* ------------------------------------------------------------------ bounds
\* most lines in a reply given to parse
MaxLines == 3

NoMatch == [matched |-> FALSE, key |-> "", value |-> ""]

\* re.search(r'(?P<key>[^=]+)="?(?P<value>([^"]|\\")+)"?', line), trying the
\* start positions from i on: the key runs from the first character that is
\* not '=' up to the next '='; after an optional quote the value is the run
\* of characters that are not quotes ([^"] also takes the backslash, so the
\* alternative \\" never applies), and holds one character at least
RECURSIVE search(_, _)
search(line, i) ==
    LET k == skip(line, "=", i)
        j == find(line, "=", k)
        q == IF j < Len(line) /\ SubSeq(line, j + 1, j + 1) = "\""
             THEN j + 2 ELSE j + 1
        e == find(line, "\"", q)
    IN IF j > Len(line) THEN NoMatch
       ELSE IF e > q
       THEN [matched |-> TRUE, key |-> SubSeq(line, k, j - 1),
             value |-> SubSeq(line, q, e - 1)]
       ELSE search(line, j + 1)

\* data[key] = value
dict_set(d, key, value) ==
    [x \in DOMAIN d \cup {key} |-> IF x = key THEN value ELSE d[x]]

\* the loop of parse over the lines
RECURSIVE parse_lines(_, _)
parse_lines(lines, data) ==
    IF lines = <<>> THEN data
    ELSE LET mt == search(Head(lines), 1)
         IN parse_lines(Tail(lines),
                        IF mt.matched THEN dict_set(data, mt.key, mt.value)
                        ELSE data)

\* Connector.parse(string)
parse(string) == parse_lines(split(string), EmptyDict)

\* replies given to parse: up to MaxLines lines
ReplyLines ==
    {"a=\"1\"", "b=\"2\"", "a=\"3\"", "t=\"x\\\"y\"", "a=\"1\" b=\"2\"",
     "--- 1 ---"}
Replies == {join(q) : q \in UNION {[1..n -> ReplyLines] : n \in 0..MaxLines}}

Connector_parse ==
    /\ op.name = "reply"
    /\ op' = [name |-> "parse", reply |-> op.reply, ret |-> parse(op.reply)]
    /\ UNCHANGED <<trace, procVars, rpcVars, metaVars, listVars, fileVars,
                   fetchVars, recvVars>>

\* ======================================================================
\* Controller, liquidsoap/utils.py
\* ======================================================================
allButOp == <<procVars, rpcVars, metaVars, listVars, fileVars, fetchVars,
             recvVars>>

\* ---- Controller.__init__
\* the database: for each program, Program.active and stream_set.count()
ProgramDbs == [Programs -> [active : BOOLEAN, streams : {0, 1}]]

\* BaseSource.__init__(self, controller, id, name): its parameters after
\* self; Master(self): the arguments of the call
BaseSource_init_params == <<"controller", "id", "name">>
Master_call_args == <<"controller">>

\* a call with fewer positional arguments than required parameters raises
\* TypeError
call_raises(args, params) == Len(args) < Len(params)

\* Controller.__init__: the exception that leaves it, and the master, dealer
\* and streams attributes assigned by then (None: the class attribute)
Controller_init_result(db) ==
    IF call_raises(Master_call_args, BaseSource_init_params)
    THEN [raised |-> "TypeError", master |-> "None", dealer |-> "None",
          streams |-> "None"]
    ELSE [raised |-> "", master |-> MasterSrc.id, dealer |-> dealer_id,
          streams |-> {stream_id(pr) : pr \in {x \in Programs :
                           db[x].active /\ db[x].streams # 0}}]

Controller_init(db) ==
    /\ Idle
    /\ op' = [name |-> "Controller_init", db |-> db,
              result |-> Controller_init_result(db)]
    /\ trace' = <<>>
    /\ UNCHANGED allButOp

\* ---- Controller.update, on a Controller whose master, dealer and streams
\* attributes hold the sources of USources
UpdateOrder == <<MasterSrc, DealerSrc, StreamSrc("1"), StreamSrc("12")>>
NumSends == Len(UpdateOrder) + 1

\* the k-th send of the call meets the transport tr, the others succeed
ScriptFor(n, k, tr) ==
    IF n = k THEN Script(tr[1], tr[2], tr[3], tr[4]) ELSE Script(0, "send_err", "ok", FALSE)

\* self.update(metadata = r or {}), r the value send returned: a dict from
\* parse, {} for '' / None / an empty dict; a str that is not empty has no
\* .get and raises AttributeError
update_with_reply(s, r, current) ==
    IF r.kind = "str" /\ r.text # ""
    THEN [raised |-> "AttributeError", metadata |-> current]
    ELSE LET md == IF r.kind = "dict" THEN parse(r.text) ELSE EmptyDict
         IN [raised |-> "",
             metadata |-> IF update_rejects(s, md) THEN current ELSE md]

\* str(d), for a value send returned as a str, or None
str_of(ret) == IF ret.kind = "None" THEN "None" ELSE ret.text

\* update() of one source: Master.update asks request.on_air and then
\* request.metadata <reply>; BaseSource.update asks <id>.get. n is the number
\* of the first send it makes, st = [avail, eng, wire, metadata, called,
\* raised]
update_none(s, n, k, tr, st) ==
    LET r1 == send([cmd |-> IF s = MasterSrc THEN "request.on_air"
                            ELSE s.id \o ".get",
                    try_count |-> 1, parse |-> s # MasterSrc],
                   st.avail, st.eng, st.wire, ScriptFor(n, k, tr), 1)
        r  == IF s = MasterSrc /\ r1.raised = ""
              THEN send([cmd |-> "request.metadata " \o str_of(r1.ret),
                         try_count |-> 1, parse |-> TRUE],
                        r1.avail, r1.eng, r1.wire, ScriptFor(n + 1, k, tr), 1)
              ELSE r1
        u  == update_with_reply(s, r.ret, st.metadata[s.id])
    IN [avail |-> r.avail, eng |-> r.eng, wire |-> r.wire,
        metadata |-> IF r.raised = ""
                     THEN [st.metadata EXCEPT ![s.id] = u.metadata]
                     ELSE st.metadata,
        called |-> Append(st.called, s.id),
        raised |-> IF r.raised # "" THEN r.raised ELSE u.raised,
        reply |-> r.ret]

\* Controller.update: the sources in turn, until one raises
RECURSIVE update_all(_, _, _, _, _)
update_all(srcs, n, k, tr, st) ==
    IF srcs = <<>> \/ st.raised # "" THEN st
    ELSE update_all(Tail(srcs), n + (IF Head(srcs) = MasterSrc THEN 2 ELSE 1),
                    k, tr, update_none(Head(srcs), n, k, tr, st))

Controller_update(k, tr) ==
    LET st == update_all(UpdateOrder, 1, k, tr,
                         [avail |-> available, eng |-> engine, wire |-> <<>>,
                          metadata |-> metadata, called |-> <<>>,
                          raised |-> ""])
    IN /\ Idle
       /\ op' = [name |-> "Controller_update", k |-> k, tr |-> tr,
                 called |-> st.called, raised |-> st.raised]
       /\ trace' = st.wire
       /\ available' = st.avail
       /\ engine' = st.eng
       /\ metadata' = st.metadata
       /\ UNCHANGED <<procVars, listVars, fileVars, fetchVars, recvVars>>

\* update() of the source s, called by itself; the k-th of its sends meets
\* the transport tr
Source_update(s, k, tr) ==
    LET st == update_none(s, 1, k, tr,
                          [avail |-> available, eng |-> engine, wire |-> <<>>,
                           metadata |-> metadata, called |-> <<>>,
                           raised |-> ""])
    IN /\ Idle
       /\ op' = [name |-> "Source_update", src |-> s.id, k |-> k, tr |-> tr,
                 before |-> metadata[s.id], reply |-> st.reply,
                 raised |-> st.raised]
       /\ trace' = st.wire
       /\ available' = st.avail
       /\ engine' = st.eng
       /\ metadata' = st.metadata
       /\ UNCHANGED <<procVars, listVars, fileVars, fetchVars, recvVars>>

\* ---- Controller.write
\* Source.path and Controller.config_path, as file names
m3u(s) == s.id \o ".m3u"
config_path == "station.liq"

\* Mutant: the configuration is written before the playlists.
write_plan_config_first(pl, cf) ==
    (IF cf THEN <<config_path>> ELSE <<>>)
        \o (IF pl THEN <<m3u(StreamSrc("1")), m3u(StreamSrc("12")), m3u(DealerSrc)>>
            ELSE <<>>)

\* the files Controller.write(playlist, config) opens for writing, in order
write_plan(pl, cf) ==
    (IF pl THEN <<m3u(StreamSrc("1")), m3u(StreamSrc("12")), m3u(DealerSrc)>>
     ELSE <<>>)
        \o (IF cf THEN <<config_path>> ELSE <<>>)

\* failAt = 0: every write succeeds; failAt = n: the n-th open/write raises
\* and nothing after it is attempted
Controller_write(pl, cf, failAt) ==
    LET plan == write_plan(pl, cf)
        fails == failAt \in 1..Len(plan)
        done == IF fails THEN SubSeq(plan, 1, failAt - 1) ELSE plan
    IN /\ Idle
       /\ op' = [name |-> "Controller_write", playlist |-> pl, config |-> cf,
                 raised |-> IF fails THEN "OSError" ELSE ""]
       /\ trace' = [i \in 1..Len(done) |-> Ev("write", None, done[i])]
       /\ UNCHANGED allButOp

\* ======================================================================
\* Writing a file in place: open(path, 'w') and file.write
\* ======================================================================
\* ------------------------------------------------------------------ bounds
\* characters the file object buffers before it writes them to the file
\* (io.DEFAULT_BUFFER_SIZE, scaled down)
BufSize == 2

NoWriter == [pc |-> "closed", text |-> "", old |-> NoFile, new |-> ""]

PathValues == {v \in Values : \A i \in 1..Len(v) : IsPath(v[i])}

\* Source.playlist (setter) up to `with open(self.path, 'w') as file` of
\* Source.push: the file is created or truncated, nothing is written yet
push_open(value) ==
    LET v == sorted(value)
    IN /\ writer.pc = "closed"
       /\ playlist_differs(v, playlist)
       /\ playlist' = v
       /\ writer' = [pc |-> "open", text |-> push_text(v), old |-> file,
                     new |-> push_text(v)]
       /\ file' = FileOf("")
       /\ op' = [name |-> "push_open", seen |-> NoFile, during |-> FALSE]
       /\ trace' = <<>>
       /\ UNCHANGED <<procVars, rpcVars, metaVars, fetchVars, recvVars>>

\* Source.push() called by itself (Streamer.push calls it for every source),
\* up to its open: the playlist is the one held, the file is truncated
Source_push ==
    /\ writer.pc = "closed"
    /\ writer' = [pc |-> "open", text |-> push_text(playlist), old |-> file,
                  new |-> push_text(playlist)]
    /\ file' = FileOf("")
    /\ op' = [name |-> "push_open", seen |-> NoFile, during |-> FALSE]
    /\ trace' = <<>>
    /\ UNCHANGED <<playlist, procVars, rpcVars, metaVars, fetchVars, recvVars>>

\* file.write(text): a text of BufSize characters or more is written through
\* to the file, whole and at once; a shorter one stays in the buffer until
\* the file is closed
push_flush ==
    /\ writer.pc = "open"
    /\ Len(writer.text) >= BufSize
    /\ file' = FileOf(file.text \o writer.text)
    /\ writer' = [writer EXCEPT !.text = ""]
    /\ op' = [name |-> "push_flush", seen |-> NoFile, during |-> FALSE]
    /\ trace' = <<>>
    /\ UNCHANGED <<playlist, procVars, rpcVars, metaVars, fetchVars, recvVars>>

\* the end of the with block: what is buffered reaches the file, the file
\* is closed
push_close ==
    /\ writer.pc = "open"
    /\ file' = FileOf(file.text \o writer.text)
    /\ writer' = NoWriter
    /\ op' = [name |-> "push_close", seen |-> NoFile, during |-> FALSE]
    /\ trace' = <<Ev("write", None, file'.text)>>
    /\ UNCHANGED <<playlist, procVars, rpcVars, metaVars, fetchVars, recvVars>>

\* the engine, or any other process, reads the file at Source.path
reader_read ==
    /\ op' = [name |-> "read", seen |-> file, during |-> writer.pc = "open"]
    /\ trace' = <<>>
    /\ UNCHANGED <<playlist, file, writer, procVars, rpcVars, metaVars,
                   fetchVars, recvVars>>

\* ======================================================================
\* Streamer.fetch, aircox/controllers.py
\* ======================================================================
\* Streamer.current_sound = '', Streamer.current_source = None, and for each
\* source Source.rid = None, Source.current_sound = '', Source.metadata = None
NewStreamer ==
    [current_sound |-> "", current_source |-> "None",
     rid |-> [i \in CtlSources |-> "None"],
     sound |-> [i \in CtlSources |-> ""],
     metadata |-> [i \in CtlSources |-> NoMeta]]

\* station.sources, in the order fetch goes through them
FetchOrder == <<"dealer", "jazz">>

\* dict.get(key): None when the key is missing
DictGet(d, key) == IF key \in DOMAIN d THEN d[key] ELSE "None"

\* s.split(' ')[0]
first_word(s) == SubSeq(s, 1, find(s, " ", 1) - 1)

\* `not data` for a value send returned
falsy(r) ==
    \/ r.kind = "None"
    \/ r.kind = "str" /\ r.text = ""
    \/ r.kind = "dict" /\ parse(r.text) = EmptyDict

\* Source.fetch() of source id, its send being number n of the call;
\* st = [avail, eng, wire, raised, str]
Source_fetch(id, n, k, tr, st) ==
    LET r == send([cmd |-> id \o ".get", try_count |-> 1, parse |-> TRUE],
                  st.avail, st.eng, st.wire, ScriptFor(n, k, tr), 1)
        data == parse(r.ret.text)
    IN [avail |-> r.avail, eng |-> r.eng, wire |-> r.wire, raised |-> r.raised,
        str |-> IF r.raised # "" \/ falsy(r.ret) \/ r.ret.kind # "dict"
                THEN st.str
                ELSE [st.str EXCEPT !.rid[id] = DictGet(data, "rid"),
                                    !.sound[id] = DictGet(data, "initial_uri")]]

\* for source in sources: source.fetch(), until one raises
RECURSIVE fetch_sources(_, _, _, _, _)
fetch_sources(ids, n, k, tr, st) ==
    IF ids = <<>> \/ st.raised # "" THEN st
    ELSE fetch_sources(Tail(ids), n + 1, k, tr,
                       Source_fetch(Head(ids), n, k, tr, st))

\* next(iter(source for source in sources if source.rid == rid), default)
source_of_rid(str, rid, ids, default) ==
    LET hits == {i \in 1..Len(ids) : str.rid[ids[i]] = rid}
    IN IF hits = {} THEN default
       ELSE ids[CHOOSE i \in hits : \A j \in hits : i <= j]

\* Streamer.fetch() after the sources: request.on_air, request.metadata
fetch_on_air(k, tr, st) ==
    LET n  == Len(FetchOrder) + 1
        r1 == send([cmd |-> "request.on_air", try_count |-> 1, parse |-> FALSE],
                   st.avail, st.eng, st.wire, ScriptFor(n, k, tr), 1)
        rid == first_word(r1.ret.text)
        r2 == send([cmd |-> "request.metadata " \o rid, try_count |-> 1,
                    parse |-> TRUE],
                   r1.avail, r1.eng, r1.wire, ScriptFor(n + 1, k, tr), 1)
        data == parse(r2.ret.text)
        src == source_of_rid(st.str, rid, FetchOrder, st.str.current_source)
        \* got: the metadata of the request on air were obtained
        out(r, raised, str, got) ==
            [avail |-> r.avail, eng |-> r.eng, wire |-> r.wire,
             raised |-> raised, str |-> str, rid |-> rid, got |-> got]
    IN IF r1.raised # "" THEN out(r1, r1.raised, st.str, FALSE)
       ELSE IF rid = "" THEN out(r1, "", st.str, FALSE)
       ELSE IF r2.raised # "" THEN out(r2, r2.raised, st.str, FALSE)
       ELSE IF falsy(r2.ret) THEN out(r2, "", st.str, FALSE)
       ELSE IF r2.ret.kind # "dict"
       THEN \* a str has no .get
            out(r2, "AttributeError", st.str, FALSE)
       ELSE IF src = "None"
       THEN \* None has no attribute metadata
            out(r2, "AttributeError",
                [st.str EXCEPT !.current_sound = DictGet(data, "initial_uri")],
                TRUE)
       ELSE out(r2, "",
                [st.str EXCEPT !.current_sound = DictGet(data, "initial_uri"),
                               !.current_source = src,
                               !.metadata[src] = data],
                TRUE)

\* Streamer.fetch(); the k-th of its sends meets the transport tr
Streamer_fetch(k, tr) ==
    LET s1 == fetch_sources(FetchOrder, 1, k, tr,
                            [avail |-> available, eng |-> engine,
                             wire |-> <<>>, raised |-> "", str |-> streamer])
        s2 == IF s1.raised # "" THEN s1 ELSE fetch_on_air(k, tr, s1)
    IN /\ Idle
       /\ op' = [name |-> "fetch", k |-> k, tr |-> tr, raised |-> s2.raised,
                 before |-> streamer,
                 got |-> (s1.raised = "" /\ s2.got),
                 on_air |-> IF s1.raised = "" THEN s2.rid ELSE ""]
       /\ trace' = s2.wire
       /\ available' = s2.avail
       /\ engine' = s2.eng
       /\ streamer' = s2.str
       /\ UNCHANGED <<procVars, metaVars, listVars, fileVars, recvVars>>

\* Source.playlist (getter) of source id: self.fetch(), then
\* return self.__playlist; the send of fetch meets the transport tr
playlist_get(id, tr) ==
    LET st == Source_fetch(id, 1, 1, tr,
                           [avail |-> available, eng |-> engine, wire |-> <<>>,
                            raised |-> "", str |-> streamer])
    IN /\ Idle
       /\ op' = [name |-> "playlist_get", src |-> id, tr |-> tr,
                 was_available |-> available, cmd |-> id \o ".get",
                 calls |-> 1, before |-> playlist, raised |-> st.raised,
                 ret |-> IF st.raised = "" THEN playlist ELSE <<>>]
       /\ trace' = st.wire
       /\ available' = st.avail
       /\ engine' = st.eng
       /\ streamer' = st.str
       /\ UNCHANGED <<procVars, metaVars, listVars, fileVars, recvVars>>

\* the engine's connection is closed (the engine restarts, the peer resets)
connection_lost ==
    /\ Idle
    /\ available
    /\ available' = FALSE
    /\ UNCHANGED <<op, trace, engine, notRpc>>

\* ======================================================================
\* Connector.send, recv by recv
\* ======================================================================
\* ------------------------------------------------------------------ bounds
\* most bytes of earlier replies left unread on the connection when a send
\* is called
MaxLeftover == 8

NoConnection == [open |-> FALSE, inflight |-> ""]
NewConnection == [open |-> TRUE, inflight |-> ""]
NoCall == [pc |-> "idle", cmd |-> "", try_count |-> 0, parse |-> FALSE,
           data |-> "", depth |-> 0, call |-> "", expect |-> ""]

\* what the engine writes for a reply: the body, then a line END
Sentinel == "\r\nEND\r\n"
wire_reply(body) == body \o Sentinel

\* \s
IsSpace(c) == c \in {" ", "\n", "\r", "\t"}

\* len(s.rstrip())
rstrip_len(s) ==
    CHOOSE e \in 0..Len(s) :
        /\ e = 0 \/ ~IsSpace(SubSeq(s, e, e))
        /\ \A j \in (e + 1)..Len(s) : IsSpace(SubSeq(s, j, j))

\* len(s) - len(s.lstrip())
lstrip_len(s) ==
    CHOOSE b \in 0..Len(s) :
        /\ b = Len(s) \/ ~IsSpace(SubSeq(s, b + 1, b + 1))
        /\ \A j \in 1..b : IsSpace(SubSeq(s, j, j))

\* s.strip()
strip(s) == SubSeq(s, lstrip_len(s) + 1, rstrip_len(s))

\* reg.search(data) with reg = r'(.*)\s+END\s*$': the data, less the white
\* space that ends it, ends with END, and a white space stands before END
sentinel_found(data) ==
    /\ rstrip_len(data) >= 4
    /\ SubSeq(data, rstrip_len(data) - 2, rstrip_len(data)) = "END"
    /\ IsSpace(SubSeq(data, rstrip_len(data) - 3, rstrip_len(data) - 3))

\* reg.sub(r'\1', data).strip(): what stands before END, stripped
sentinel_sub(data) == strip(SubSeq(data, 1, rstrip_len(data) - 3))

\* the number of bytes one recv returns: anything up to all there can be
ChunkSizes == 1..(MaxLeftover + Len(wire_reply(UnknownCommand)))

\* the commands whose replies are followed recv by recv
RecvCmds == {"request.on_air", "request.metadata 2"}

\* read: the value returned is made of what the read loop received; line:
\* the line a sendall has written
RecvOp(name, a, ret, raised, read) ==
    [name |-> name, call |-> a.call, expect |-> a.expect, depth |-> a.depth,
     ret |-> ret, raised |-> raised, read |-> read, line |-> ""]

\* one attempt of send(): open(), the line, sendall. a = [cmd, try_count,
\* parse, depth, call, expect]; connects: the connect of a new socket
\* succeeds; sendall_ok: sendall does not raise; short: the process is short
\* of memory. It ends in the read loop
\* (pc = "reading"), in the except clause with a retry to make
\* (pc = "except"), or with the return of the call.
attempt(a, connects, sendall_ok, short) ==
    LET conn == IF available THEN net ELSE NewConnection
        line == a.cmd \o "\n"
        back(ret, raised, avail, n) ==
            /\ rx' = NoCall
            /\ net' = n
            /\ available' = avail
            /\ op' = RecvOp("send_return", a, ret, raised, FALSE)
            /\ UNCHANGED engine
    IN IF a.depth > RecursionLimit \/ (~available /\ ~connects)
       THEN \* open() returned -1
            back(RetStr(""), "", FALSE, net)
       ELSE IF short /\ Len(line) > MaxLineLen
       THEN \* building the line raises MemoryError, outside the try
            back(RetNone, "MemoryError", TRUE, conn)
       ELSE IF ~sendall_ok \/ ~conn.open
       THEN \* except: data is the bytes of the line
            IF a.try_count > 0
            THEN /\ rx' = [pc |-> "except",
                           cmd |-> retry_args(bytes_repr(line), a.try_count).cmd,
                           try_count |-> retry_args(bytes_repr(line), a.try_count).try_count,
                           parse |-> retry_args(bytes_repr(line), a.try_count).parse,
                           data |-> "", depth |-> a.depth + 1,
                           call |-> a.call, expect |-> a.expect]
                 /\ net' = conn
                 /\ available' = FALSE
                 /\ op' = RecvOp("sendall_raises", a, RetNone, "", FALSE)
                 /\ UNCHANGED engine
            ELSE back(RetNone, "", FALSE, conn)
       ELSE \* data = '': from here on the line is no longer held
            /\ rx' = [pc |-> "reading", cmd |-> "", try_count |-> a.try_count,
                      parse |-> a.parse, data |-> "", depth |-> a.depth,
                      call |-> a.call, expect |-> a.expect]
            /\ net' = [conn EXCEPT !.inflight =
                           @ \o wire_reply(EngineReply(engine, a.cmd))]
            /\ available' = TRUE
            /\ engine' = EngineStep(engine, a.cmd)
            /\ op' = [RecvOp("sendall", a, RetNone, "", FALSE) EXCEPT !.line = line]

\* a caller calls send(cmd, parse = ps)
send_call(cmd, ps, connects, sendall_ok, short) ==
    /\ rx.pc = "idle"
    /\ Len(net.inflight) <= MaxLeftover
    /\ attempt([cmd |-> cmd, try_count |-> 1, parse |-> ps, depth |-> 1,
                call |-> cmd, expect |-> EngineReply(engine, cmd)],
               connects, sendall_ok, short)
    /\ trace' = <<>>
    /\ UNCHANGED <<procVars, metaVars, listVars, fileVars, fetchVars>>

\* return self.send(data, try_count - 1), from the except clause
send_retry(connects, sendall_ok, short) ==
    /\ rx.pc = "except"
    /\ attempt(rx, connects, sendall_ok, short)
    /\ trace' = <<>>
    /\ UNCHANGED <<procVars, metaVars, listVars, fileVars, fetchVars>>

\* data += recv(1024): the call returns the n bytes that arrived first; then
\* the test of the while loop, and with the sentinel found the rest of send
recv(n) ==
    LET data == rx.data \o SubSeq(net.inflight, 1, n)
        text == sentinel_sub(data)
    IN /\ rx.pc = "reading"
       /\ n \in 1..Len(net.inflight)
       /\ net' = [net EXCEPT !.inflight = SubSeq(@, n + 1, Len(@))]
       /\ IF sentinel_found(data)
          THEN /\ rx' = NoCall
               /\ op' = RecvOp("send_return", rx,
                               IF rx.parse THEN RetDict(text) ELSE RetStr(text),
                               "", TRUE)
          ELSE /\ rx' = [rx EXCEPT !.data = data]
               /\ op' = RecvOp("recv", rx, RetNone, "", FALSE)
       /\ trace' = <<>>
       /\ UNCHANGED <<rpcVars, procVars, metaVars, listVars, fileVars, fetchVars>>

\* recv on a connection the peer has closed, everything it wrote being
\* read: it returns b'', data is what it was and the loop goes on
recv_eof ==
    /\ rx.pc = "reading"
    /\ net.inflight = "" /\ ~net.open
    /\ ~sentinel_found(rx.data \o "")
    /\ rx' = [rx EXCEPT !.data = @ \o ""]
    /\ op' = RecvOp("recv_eof", rx, RetNone, "", FALSE)
    /\ trace' = <<>>
    /\ UNCHANGED <<net, rpcVars, procVars, metaVars, listVars, fileVars,
                   fetchVars>>

\* a recv raises (connection reset): the except clause, data being the
\* text received so far
recv_raises ==
    /\ rx.pc = "reading"
    /\ available' = FALSE
    /\ IF rx.try_count > 0
       THEN /\ rx' = [rx EXCEPT !.pc = "except",
                                !.cmd = retry_args(rx.data, rx.try_count).cmd,
                                !.try_count = retry_args(rx.data, rx.try_count).try_count,
                                !.parse = retry_args(rx.data, rx.try_count).parse,
                                !.data = "", !.depth = @ + 1]
            /\ op' = RecvOp("recv_raises", rx, RetNone, "", FALSE)
       ELSE /\ rx' = NoCall
            /\ op' = RecvOp("send_return", rx, RetNone, "", FALSE)
    /\ trace' = <<>>
    /\ UNCHANGED <<net, engine, procVars, metaVars, listVars, fileVars,
                   fetchVars>>

\* the engine closes its end: after all it wrote has left (flushed), or
\* dying with what recv has not returned yet still unsent
peer_close(flushed) ==
    /\ net.open
    /\ net' = [open |-> FALSE,
               inflight |-> IF flushed THEN net.inflight ELSE ""]
    /\ UNCHANGED <<rx, op, trace, rpcVars, procVars, metaVars, listVars,
                   fileVars, fetchVars>>

\* ======================================================================
\* Specifications
\* ======================================================================
InitRpcVars ==
    /\ available = FALSE
    /\ engine = [v \in EngineVars |-> "false"]

InitMetaVars == metadata = [i \in {s.id : s \in USources} |-> NoMeta]

InitListVars ==
    /\ playlist = <<>>
    /\ file = NoFile

InitFileVars == writer = NoWriter

InitFetchVars == streamer = NewStreamer

InitRecvVars ==
    /\ net = NoConnection
    /\ rx = NoCall

InitProcVars ==
    /\ procs = [p \in Pids |-> "unborn"]
    /\ bound = {}
    /\ sockFile = FALSE
    /\ process = [s \in Sup |-> None]
    /\ hooks = [s \in Sup |-> 0]
    /\ waiting = [s \in Sup |-> FALSE]

NoOp == [name |-> "init", sup |-> "", held |-> FALSE, zombies |-> {}, raised |-> FALSE]

\* the playlist of the stream, as Source.__init__ loaded it from its file
StreamPlaylist == <<"/b">>

InitProc ==
    /\ InitProcVars
    /\ InitRpcVars
    /\ InitMetaVars
    /\ playlist = StreamPlaylist
    /\ file = FileOf(push_text(StreamPlaylist))
    /\ InitFileVars
    /\ InitFetchVars
    /\ InitRecvVars
    /\ op = NoOp
    /\ trace = <<>>

NextProc ==
    \/ \E s \in Sup, f \in 0..NumFiles : process_run(s, f)
    \/ \E s \in Sup : process_terminate(s)
    \/ \E s \in Sup : process_wait(s)
    \/ \E s \in Sup : wait_return(s)
    \/ \E s \in Sup : supervisor_exit(s)
    \/ \E s \in Sup : supervisor_crash(s)
    \/ \E p \in Pids : engine_bind(p)
    \/ \E p \in Pids : engine_exit(p)
    \/ socket_unlink
    \/ \E f \in 0..NumFiles : Streamer_push(f)

SpecProc == InitProc /\ [][NextProc]_vars

InitRpc ==
    /\ InitProcVars
    /\ InitRpcVars
    /\ InitMetaVars
    /\ InitListVars
    /\ InitFileVars
    /\ InitFetchVars
    /\ InitRecvVars
    /\ op = IdleOp
    /\ trace = <<>>

NextRpc ==
    \/ \E c \in Cmds, n \in 0..MaxTry, ps \in BOOLEAN, tr \in Transports :
            Connector_send(c, n, ps, tr)
    \/ \E c \in BOOLEAN : Connector_open(c)
    \/ \E tr \in Transports : ready(tr)
    \/ \E i \in CtlSources, tr \in Transports : active_get(i, tr)
    \/ \E i \in CtlSources, b \in BOOLEAN, tr \in Transports : active_set(i, b, tr)
    \/ \E s \in Srcs, tr \in Transports : on_get(s.id, tr)
    \/ \E s \in Srcs, b \in BOOLEAN, tr \in Transports : on_set(s.id, b, tr)
    \/ op_return
    \/ \E v \in EngineVars, b \in Bools : engine_change(v, b)

SpecRpc == InitRpc /\ [][NextRpc]_vars

InitMeta ==
    /\ InitProcVars
    /\ InitRpcVars
    /\ InitMetaVars
    /\ InitListVars
    /\ InitFileVars
    /\ InitFetchVars
    /\ InitRecvVars
    /\ op = IdleOp
    /\ trace = <<>>

NextMeta ==
    \/ \E s \in USources, md \in Metas : update(s.id, md)
    \/ op_return

SpecMeta == InitMeta /\ [][NextMeta]_vars

InitList ==
    /\ InitProcVars
    /\ InitRpcVars
    /\ InitMetaVars
    /\ InitListVars
    /\ InitFileVars
    /\ InitFetchVars
    /\ InitRecvVars
    /\ op = [name |-> "init", value |-> <<>>, differs |-> FALSE]
    /\ trace = <<>>

NextList ==
    \/ \E v \in Values : playlist_set(v)
    \/ from_file
    \/ \E db \in DbValues : Source_init(db)

SpecList == InitList /\ [][NextList]_vars

InitCtl ==
    /\ InitProcVars
    /\ InitRpcVars
    /\ InitMetaVars
    /\ InitListVars
    /\ InitFileVars
    /\ InitFetchVars
    /\ InitRecvVars
    /\ op = IdleOp
    /\ trace = <<>>

NextCtl ==
    \/ \E db \in ProgramDbs : Controller_init(db)
    \/ \E k \in 1..NumSends, tr \in Transports : Controller_update(k, tr)
    \/ \E pl \in BOOLEAN, cf \in BOOLEAN, f \in 0..(Cardinality(Srcs) + 1) :
            Controller_write(pl, cf, f)
    \/ op_return

SpecCtl == InitCtl /\ [][NextCtl]_vars

InitUpd ==
    /\ InitProcVars
    /\ InitRpcVars
    /\ InitMetaVars
    /\ InitListVars
    /\ InitFileVars
    /\ InitFetchVars
    /\ InitRecvVars
    /\ op = IdleOp
    /\ trace = <<>>

NextUpd ==
    \/ \E s \in USources, k \in 1..2, tr \in Transports : Source_update(s, k, tr)
    \/ op_return
    \/ connection_lost

SpecUpd == InitUpd /\ [][NextUpd]_vars

InitWrite ==
    /\ InitProcVars
    /\ InitRpcVars
    /\ InitMetaVars
    /\ InitListVars
    /\ InitFileVars
    /\ InitFetchVars
    /\ InitRecvVars
    /\ op = [name |-> "init", seen |-> NoFile, during |-> FALSE]
    /\ trace = <<>>

NextWrite ==
    \/ \E v \in PathValues : push_open(v)
    \/ Source_push
    \/ push_flush
    \/ push_close
    \/ reader_read

SpecWrite == InitWrite /\ [][NextWrite]_vars

InitFetch ==
    /\ InitProcVars
    /\ InitRpcVars
    /\ InitMetaVars
    /\ InitListVars
    /\ InitFileVars
    /\ InitFetchVars
    /\ InitRecvVars
    /\ op = IdleOp
    /\ trace = <<>>

NextFetch ==
    \/ \E k \in 1..(Len(FetchOrder) + 2), tr \in Transports : Streamer_fetch(k, tr)
    \/ op_return
    \/ connection_lost

SpecFetch == InitFetch /\ [][NextFetch]_vars

\* the Source holds a playlist it has written to its file
InitRead ==
    /\ InitProcVars
    /\ InitRpcVars
    /\ InitMetaVars
    /\ \E v \in PathValues :
          /\ playlist = sorted(v)
          /\ file = IF v = <<>> THEN NoFile ELSE FileOf(push_text(sorted(v)))
    /\ InitFileVars
    /\ InitFetchVars
    /\ InitRecvVars
    /\ op = IdleOp
    /\ trace = <<>>

NextRead ==
    \/ \E i \in CtlSources, tr \in Transports : playlist_get(i, tr)
    \/ op_return
    \/ connection_lost

SpecRead == InitRead /\ [][NextRead]_vars

InitParse ==
    /\ InitProcVars
    /\ InitRpcVars
    /\ InitMetaVars
    /\ InitListVars
    /\ InitFileVars
    /\ InitFetchVars
    /\ InitRecvVars
    /\ \E r \in Replies : op = [name |-> "reply", reply |-> r]
    /\ trace = <<>>

NextParse == Connector_parse

SpecParse == InitParse /\ [][NextParse]_vars

InitRecv ==
    /\ InitProcVars
    /\ InitRpcVars
    /\ InitMetaVars
    /\ InitListVars
    /\ InitFileVars
    /\ InitFetchVars
    /\ InitRecvVars
    /\ op = RecvOp("init", NoCall, RetNone, "", FALSE)
    /\ trace = <<>>

\* the steps of the program inside send()
SendSteps ==
    \/ \E n \in ChunkSizes : recv(n)
    \/ recv_eof
    \/ \E c \in BOOLEAN, ok \in BOOLEAN, sh \in BOOLEAN : send_retry(c, ok, sh)

NextRecv ==
    \/ \E c \in RecvCmds, ps \in BOOLEAN, cn \in BOOLEAN, ok \in BOOLEAN,
          sh \in BOOLEAN :
            send_call(c, ps, cn, ok, sh)
    \/ SendSteps
    \/ recv_raises
    \/ \E f \in BOOLEAN : peer_close(f)

SpecRecv == InitRecv /\ [][NextRecv]_vars

\* the program runs: a step of send() that can be taken is taken
LiveRecv == SpecRecv /\ WF_vars(SendSteps)

\* ----------------------------------------------------------------------
\* Properties of the process supervisor
\* ----------------------------------------------------------------------
Alive == {p \in Pids : procs[p] = "alive"}

\* C1: at most one engine process launched for the station is alive at any
\* time, whatever the interleaving of process_run, process_terminate and
\* process_wait of the station's supervising programs.
C1_AtMostOneEngineAlive == Cardinality(Alive) <= 1

\* C2: when process_run is called with no handle held and processes are bound
\* to the station's socket path, each of them is killed before the engine is
\* launched, and is dead when process_run returns.
C2_ZombiesKilledBeforeLaunch ==
    (op.name = "process_run" /\ ~op.held /\ ~op.raised) =>
        \A j \in 1..Len(trace) : trace[j].e = "launch" =>
            \A z \in op.zombies :
                /\ procs[z] = "dead"
                /\ \E i \in 1..(j - 1) : trace[i] = Ev("kill", z, "")

\* C3: process_run called while a handle is held changes nothing: no file is
\* written, no process killed or launched, no hook registered, and the handle
\* is the one held before.
C3_RunWithHandleIsNoOp ==
    [][\A s \in Sup :
          (op'.name = "process_run" /\ op'.sup = s /\ process[s] # None)
              => (UNCHANGED procVars /\ trace' = <<>>)]_vars

C3_Witness ==
    /\ op.name = "process_run" /\ op.held
    /\ \E p \in Pids : procs[p] = "dead" /\ process[op.sup] = p

\* C11: process_terminate with a handle held kills the held process (once)
\* and clears the handle, touching nothing else; with no handle held it does
\* nothing. Called again right after, it changes nothing and kills nothing,
\* so two calls in a row leave the state of one call with one kill.
C11_TerminateKillsOnceAndClears ==
    [][\A s \in Sup :
          (op'.name = "process_terminate" /\ op'.sup = s) =>
              /\ process[s] # None =>
                    /\ trace' = <<Ev("kill", process[s], "")>>
                    /\ procs'[process[s]] # "alive"
                    /\ \A p \in Pids \ {process[s]} : procs'[p] = procs[p]
                    /\ process' = [process EXCEPT ![s] = None]
                    /\ UNCHANGED <<sockFile, hooks, waiting>>
              /\ process[s] = None => (UNCHANGED procVars /\ trace' = <<>>)
              /\ (op.name = "process_terminate" /\ op.sup = s) =>
                    /\ UNCHANGED procVars
                    /\ Len(trace) + Len(trace') <= 1]_vars

C11_Witness ==
    /\ op.name = "process_terminate" /\ op.again /\ ~op.held
    /\ trace = <<>>
    /\ process[op.sup] = None
    /\ \E p \in Pids : procs[p] = "dead"
    /\ Alive = {}

\* C12: process_wait with a handle held returns only once the held process
\* has exited, and the handle is cleared when it returns; while it blocks the
\* handle is kept; with no handle held it returns at once and changes nothing.
C12_WaitReturnsAfterExit ==
    [][\A s \in Sup :
          /\ (op'.name = "wait_return" /\ op'.sup = s) =>
                /\ process[s] # None /\ procs[process[s]] = "dead"
                /\ process'[s] = None /\ ~waiting'[s]
          /\ (op'.name = "process_wait" /\ op'.sup = s) =>
                /\ process[s] = None => (UNCHANGED procVars /\ ~waiting'[s])
                /\ process[s] # None =>
                      IF procs[process[s]] = "dead"
                      THEN process'[s] = None /\ ~waiting'[s]
                      ELSE process'[s] = process[s] /\ waiting'[s]
                /\ procs' = procs /\ trace' = <<>>]_vars

C12_Witness ==
    /\ op.name = "wait_return"
    /\ process[op.sup] = None /\ ~waiting[op.sup]
    /\ \E p \in Pids : procs[p] = "dead"

\* C22: a handle whose process has exited counts as no handle: process_run
\* called while the handle held is that of a dead process writes the files
\* and launches a new process.
C22_DeadProcessCountsAsStopped ==
    [][\A s \in Sup :
          (/\ op'.name = "process_run" /\ op'.sup = s /\ ~op'.raised
           /\ process[s] # None /\ procs[process[s]] = "dead") =>
              /\ \E j \in 1..Len(trace') : trace'[j].e = "launch"
              /\ \E j \in 1..Len(trace') : trace'[j].e = "write"
              /\ process'[s] # None /\ procs'[process'[s]] = "alive"]_vars

PushFiles == {Sources[i] : i \in 1..Len(Sources)} \cup {"station.liq"}

\* C23: process_run with no handle held writes the playlist file of every
\* source and the configuration file before it launches the engine; when a
\* write fails the error leaves process_run, nothing is written after it, no
\* process is killed or launched, no hook registered, and the handle stays
\* empty.
C23_RunWritesBeforeLaunch ==
    [][\A s \in Sup :
          (op'.name = "process_run" /\ op'.sup = s /\ process[s] = None) =>
              /\ op'.at = "push" =>
                    /\ op'.raised
                    /\ UNCHANGED procVars
                    /\ process'[s] = None
                    /\ \A i \in 1..Len(trace') : trace'[i].e = "write"
                    /\ Len(trace') < Cardinality(PushFiles)
              /\ ~op'.raised =>
                    \E j \in 1..Len(trace') :
                      /\ trace'[j].e = "launch"
                      /\ process'[s] = trace'[j].pid
                      /\ file' = FileOf(push_text(playlist))
                      /\ \A f \in PushFiles :
                            \E i \in 1..(j - 1) : trace'[i] = Ev("write", None, f)
              /\ \A j \in 1..Len(trace') :
                    trace'[j].e # "write" =>
                        \A f \in PushFiles :
                            \E i \in 1..(j - 1) : trace'[i] = Ev("write", None, f)]_vars

C23_Witness ==
    /\ op.name = "process_run" /\ ~op.held /\ op.raised /\ op.at = "push"
    /\ op.zombies # {}
    /\ \A z \in op.zombies : procs[z] = "alive"
    /\ process[op.sup] = None
    /\ Len(trace) = Len(Sources)

\* C24: when the supervising program exits, its exit hooks kill the process
\* held at that moment and clear the handle, and kill nothing when no handle
\* is held. No process this program launched is then left alive: a process
\* is held from its launch on, and process_run, process_terminate and
\* process_wait let go of a handle only when its process is no longer alive.
C24_ExitHooksKillHeldProcess ==
    [][\A s \in Sup :
          /\ (op'.name = "supervisor_exit" /\ op'.sup = s) =>
                /\ process'[s] = None
                /\ process[s] # None =>
                      /\ trace' = <<Ev("kill", process[s], "")>>
                      /\ procs'[process[s]] # "alive"
                /\ process[s] = None => (trace' = <<>> /\ procs' = procs)
          /\ (op'.name = "process_run" /\ op'.sup = s) =>
                \A j \in 1..Len(trace') :
                    trace'[j].e = "launch" =>
                        (process'[s] = trace'[j].pid /\ hooks'[s] > 0)
          /\ (op'.name # "supervisor_crash" /\ process[s] # None
                /\ process'[s] # process[s]) =>
                procs'[process[s]] # "alive"]_vars

C24_Witness ==
    /\ op.name = "supervisor_exit" /\ op.held
    /\ Len(trace) = 1 /\ trace[1].e = "kill"
    /\ procs[trace[1].pid] = "dead"
    /\ process[op.sup] = None
    /\ Alive = {}

\* ----------------------------------------------------------------------
\* Properties of the Connector
\* ----------------------------------------------------------------------
Writes == SelectSeq(trace, LAMBDA e : e.e = "sendall")

\* C4: when the first attempt of send(command, try_count=1) hits an I/O error
\* and the transport works from then on, send connects again, writes the same
\* command line as the first attempt did, and returns the engine's reply to
\* the command.
C4_RetryResendsCommand ==
    (op.name = "send" /\ op.try_count = 1 /\ op.tr[1] = 1 /\ op.tr[3] = "ok") =>
        /\ Len(Writes) = 2
        /\ Writes[2] = Writes[1]
        /\ op.raised = ""
        /\ op.ret.text = op.reply

\* C5: when every attempt of send(command, try_count=n) fails with an I/O
\* error, send makes at most n+1 attempts and then returns an empty result,
\* raising nothing.
C5_RetryBudgetBounded ==
    (op.name = "send" /\ op.tr[1] = RecursionLimit) =>
        /\ Len(Writes) <= op.try_count + 1
        /\ op.raised = ""
        /\ op.ret \in {RetNone, RetStr("")}

\* the call found the connection refused at its first attempt, or every
\* attempt it made met an I/O error
RpcFails(o) ==
    \/ ~o.was_available /\ o.tr[1] = 0 /\ o.tr[3] = "refused"
    \/ o.tr[1] = RecursionLimit

\* C13: ready() writes 'var.list' and is true only when the engine gave a
\* reply that is not empty; whenever the RPC fails (connection refused, or an
\* I/O error at every attempt) ready() raises nothing and returns false.
C13_ReadyFalseWhenRpcFails ==
    op.name = "ready" =>
        /\ (op.raised = "" /\ op.ret) =>
              /\ op.sent.kind = "str" /\ op.sent.text # ""
              /\ Writes # <<>> /\ Writes[1] = Ev("sendall", None, "var.list\n")
        /\ RpcFails(op) => (op.raised = "" /\ ~op.ret)

\* C18: open() on a connector that is available creates no socket and
\* changes nothing; when the connect fails it raises nothing, returns the
\* failure indicator (-1) and leaves available false; after a connect that
\* succeeds available is true.
C18_OpenIsIdempotent ==
    [][op'.name = "open" =>
          /\ op'.raised = ""
          /\ available =>
                /\ trace' = <<>>
                /\ UNCHANGED <<rpcVars, notRpc>>
                /\ op'.ret = "None"
          /\ (~available /\ ~op'.connects) =>
                /\ op'.ret = "-1" /\ ~available'
                /\ \E i \in 1..Len(trace') : trace'[i].e = "refused"
          /\ (~available /\ op'.connects) =>
                /\ op'.ret = "None" /\ available'
                /\ Len(SelectSeq(trace', LAMBDA e : e.e = "socket")) = 1]_vars

C18_Witness ==
    /\ op.name = "open" /\ op.was_available /\ op.connects
    /\ trace = <<>> /\ available

\* ----------------------------------------------------------------------
\* Properties of the Sources
\* ----------------------------------------------------------------------
Mismatch(i, md) == ~startswith(get_or_empty(md, "source"), i)

\* C6 (as claimed): for any Source (dealer or stream), update(metadata) with
\* a 'source' field that does not start with the Source's id returns -1 and
\* leaves the cached metadata unchanged; with a matching field the cached
\* metadata becomes the given metadata.
C6_MismatchRejectedByAnySource ==
    (op.name = "update" /\ SrcOf(op.src) \in Srcs) =>
        IF Mismatch(op.src, op.md)
        THEN op.ret = "-1" /\ metadata[op.src] = op.before
        ELSE metadata[op.src] = op.md

\* C6 (amended): a Source with a program (a stream) rejects metadata whose
\* 'source' field does not start with its id (-1, cache unchanged) and takes
\* matching metadata as a whole; a dealer or a master, which has no program,
\* takes any metadata as a whole and never returns -1.
C6_MismatchRejectedByStreams ==
    op.name = "update" =>
        IF SrcOf(op.src).program # "" /\ Mismatch(op.src, op.md)
        THEN op.ret = "-1" /\ metadata[op.src] = op.before
        ELSE op.ret = "None" /\ metadata[op.src] = op.md

C6_Witness ==
    /\ op.name = "update"
    /\ SrcOf(op.src).program # ""
    /\ Mismatch(op.src, op.md)
    /\ op.md # EmptyDict
    /\ op.before \in Metas \ {EmptyDict}
    /\ metadata[op.src] = op.before

\* C27: a stream Source does not store metadata whose 'source' field is the
\* id of another Source of the station: update() rejects it (-1) and keeps
\* its cached metadata, also when its own id is a prefix of the other id
\* (programs 1 and 12).
C27_OtherSourcesMetadataRejected ==
    (/\ op.name = "update"
     /\ SrcOf(op.src).program # ""
     /\ get_or_empty(op.md, "source") \in {s.id : s \in USources} \ {op.src}) =>
        /\ op.ret = "-1"
        /\ metadata[op.src] = op.before

\* C7: assigning to Source.playlist a sequence that, sorted, equals the
\* current playlist writes nothing and changes neither playlist nor file; an
\* assignment that differs writes the file once; so the same sequence assigned
\* twice in a row, the first time to a different playlist, is written once.
C7_UnchangedPlaylistNotRewritten ==
    [][op'.name = "playlist_set" =>
          /\ sorted(op'.value) = playlist =>
                trace' = <<>> /\ playlist' = playlist /\ file' = file
          /\ sorted(op'.value) # playlist =>
                Len(trace') = 1 /\ trace'[1].e = "write"
          /\ (op.name = "playlist_set" /\ op.value = op'.value /\ op.differs) =>
                Len(trace) + Len(trace') = 1]_vars

C7_Witness ==
    /\ op.name = "playlist_set" /\ ~op.differs
    /\ op.repeats
    /\ op.value = <<"a", "/b">>
    /\ playlist = <<"/b", "a">>
    /\ trace = <<>>

IsSorted(q) == \A i \in 1..Len(q) : \A j \in (i + 1)..Len(q) : ~StrLess(q[j], q[i])
Count(q, x) == Cardinality({i \in 1..Len(q) : q[i] = x})
SameElements(q, r) ==
    /\ Len(q) = Len(r)
    /\ \A i \in 1..Len(q) : Count(q, q[i]) = Count(r, q[i])

C9_ActiveRoundTripsToEngine ==
    /\ op.name = "active_get" =>
          /\ op.calls = 1
          /\ op.cmd = "var.get " \o op.src \o "_active"
          /\ op.raised = "" => (op.ret <=> op.sent = RetStr("true"))
          /\ TransportOk(op.tr) =>
                /\ Writes = <<Ev("sendall", None, op.cmd \o "\n")>>
                /\ op.ret <=> engine[op.src \o "_active"] = "true"
    /\ op.name = "active_set" =>
          /\ op.calls = 1
          /\ op.cmd = "var.set " \o op.src \o "_active="
                          \o (IF op.value THEN "true" ELSE "false")
          /\ TransportOk(op.tr) =>
                /\ Writes = <<Ev("sendall", None, op.cmd \o "\n")>>
                /\ engine[op.src \o "_active"] = (IF op.value THEN "true" ELSE "false")

C9_Witness ==
    /\ op.name = "active_get"
    /\ TransportOk(op.tr)
    /\ op.ret
    /\ engine["jazz_active"] = "true" /\ engine["dealer_active"] = "false"
    /\ op.src = "jazz"

\* C10: reading or assigning `on` of a Source that is not a dealer raises
\* (RuntimeError) and sends nothing; on a dealer the read makes one send call
\* of 'var.get <id>_on' and the assignment one of
\* 'var.set <id>_on=true|false', which is the line written when no attempt
\* fails.
C10_OnIsDealerOnly ==
    op.name \in {"on_get", "on_set"} =>
        IF ~SrcOf(op.src).is_dealer
        THEN op.raised = "RuntimeError" /\ op.calls = 0 /\ trace = <<>>
        ELSE /\ op.calls = 1
             /\ op.raised # "RuntimeError"
             /\ op.cmd = (IF op.name = "on_get" THEN "var.get " \o op.src \o "_on"
                          ELSE "var.set " \o op.src \o "_on="
                                   \o (IF op.value THEN "true" ELSE "false"))
             /\ TransportOk(op.tr) =>
                   Writes = <<Ev("sendall", None, op.cmd \o "\n")>>

C10_Witness ==
    /\ op.name = "on_set"
    /\ ~SrcOf(op.src).is_dealer
    /\ op.raised = "RuntimeError"
    /\ trace = <<>>

\* the attempt that obtained the reply returned by the call was a retry:
\* the first tr[1] attempts failed, the next one was answered
RepliedOnRetry(o) ==
    /\ o.tr[1] \in 1..(RecursionLimit - 1) /\ o.tr[3] = "ok"
    /\ o.raised = "" /\ o.ret.kind \in {"str", "dict"}

\* C30: the form of what send() returns depends on the parse flag only:
\* with parse=True a reply obtained on a retry is returned as a mapping, as a
\* reply obtained at the first attempt is.
C30_RetryKeepsParseFlag ==
    (op.name = "send" /\ op.parse) =>
        /\ (TransportOk(op.tr) /\ op.raised = "") => op.ret.kind = "dict"
        /\ RepliedOnRetry(op) => op.ret.kind = "dict"

\* ----------------------------------------------------------------------
\* Properties of the Controller
\* ----------------------------------------------------------------------
\* C14: constructing a Controller completes and yields a master source, the
\* dealer '<station>_dealer', and one stream source per active program that
\* declares a stream, stored under '<station>_stream_<program>'; the other
\* programs get no source, and the ids are pairwise distinct.
C14_ConstructionYieldsSources ==
    op.name = "Controller_init" =>
        LET r == op.result
            declared == {pr \in Programs :
                            op.db[pr].active /\ op.db[pr].streams # 0}
        IN /\ r.raised = ""
           /\ r.master # "None"
           /\ r.dealer = ControllerId \o "_dealer"
           /\ r.streams = {ControllerId \o "_stream_" \o pr : pr \in declared}
           /\ Cardinality(r.streams) = Cardinality(declared)
           /\ r.master \notin r.streams /\ r.dealer \notin r.streams
           /\ r.master # r.dealer

\* C25: update() called without metadata keeps the cached metadata of the
\* source when the engine yields no data (the RPC fails, or the reply is
\* empty), whether the source is the master, the dealer or a stream.
C25_NoDataKeepsMetadata ==
    (op.name = "Source_update" /\ op.raised = "" /\ falsy(op.reply)) =>
        metadata[op.src] = op.before

\* C15: Controller.update() calls update on the master, on the dealer and on
\* every stream; a failure while one source is updated (RPC failure, a reply
\* obtained after a retry, an unparsable reply, an identity mismatch) does not
\* keep the remaining sources from being updated.
C15_UpdateReachesEverySource ==
    op.name = "Controller_update" =>
        Range(op.called) = {s.id : s \in USources}

\* C16: Controller.write(playlist, config): with playlist true and no write
\* failing, the playlist file of every stream and of the dealer is written;
\* with playlist false no playlist file is written; with config false the
\* configuration file is not written; and the configuration file is written
\* only after all the playlist files.
C16_WriteTouchesWhatIsAsked ==
    op.name = "Controller_write" =>
        LET written == {trace[i].arg : i \in 1..Len(trace)}
            lists == {s.id \o ".m3u" : s \in Srcs}
        IN /\ \A i \in 1..Len(trace) : trace[i].e = "write"
           /\ (op.playlist /\ op.raised = "") => lists \subseteq written
           /\ ~op.playlist => written \cap lists = {}
           /\ ~op.config => "station.liq" \notin written
           /\ (op.config /\ op.raised = "") => "station.liq" \in written
           /\ (op.playlist /\ op.config) =>
                 \A j \in 1..Len(trace) : trace[j].arg = "station.liq" =>
                     \A f \in lists : \E i \in 1..(j - 1) : trace[i].arg = f

C16_Witness ==
    /\ op.name = "Controller_write" /\ op.playlist /\ op.config
    /\ op.raised = ""
    /\ Len(trace) = Cardinality(Srcs) + 1
    /\ trace[Len(trace)].arg = "station.liq"

\* C19: while push() overwrites the playlist file, a reader of the path sees
\* either the complete previous content (or no file, if there was none) or
\* the complete new content, never an empty or partly written file.
C19_ReaderSeesOldOrNew ==
    (op.name = "read" /\ op.during) =>
        op.seen \in {writer.old, FileOf(writer.new)}

\* ----------------------------------------------------------------------
\* Properties of Streamer.fetch
\* ----------------------------------------------------------------------
\* C26: reading Source.playlist makes one send call of '<id>.get' (the line
\* written when no attempt fails) and returns the cached playlist; the fetch
\* leaves the playlist and its file as they were; when the request fails the
\* read raises nothing and returns the cached playlist.
C26_PlaylistReadFetchesFirst ==
    op.name = "playlist_get" =>
        /\ op.calls = 1
        /\ op.cmd = op.src \o ".get"
        /\ TransportOk(op.tr) =>
              Writes = <<Ev("sendall", None, op.cmd \o "\n")>>
        /\ playlist = op.before
        /\ op.raised = "" => op.ret = op.before
        /\ RpcFails(op) => (op.raised = "" /\ op.ret = op.before)

\* one request of the call found the connection refused, or met an I/O error
\* at every attempt
RequestFails(o) ==
    \/ o.tr[1] = 0 /\ o.tr[3] = "refused"
    \/ o.tr[1] = RecursionLimit

\* C20: Streamer.fetch() does not raise because of an RPC failure: when one
\* of its requests is refused or fails at every attempt, fetch returns
\* normally, and when that request is one of the two it makes for the track
\* on air, current_sound, current_source and every source's metadata keep
\* their values.
C20_FetchSurvivesRpcFailure ==
    (op.name = "fetch" /\ RequestFails(op)) =>
        /\ op.raised = ""
        /\ op.k > Len(FetchOrder) =>
              /\ streamer.current_sound = op.before.current_sound
              /\ streamer.current_source = op.before.current_source
              /\ streamer.metadata = op.before.metadata

\* ----------------------------------------------------------------------
\* Properties of Connector.parse
\* ----------------------------------------------------------------------
\* index of the quote that closes a value starting at i (a backslash and the
\* character after it belong to the value); 0 if there is none
RECURSIVE value_end(_, _)
value_end(line, i) ==
    IF i > Len(line) THEN 0
    ELSE IF SubSeq(line, i, i) = "\"" THEN i
    ELSE IF SubSeq(line, i, i) = "\\" THEN value_end(line, i + 2)
    ELSE value_end(line, i + 1)

Malformed == {<<"", "">>}

\* the pairs of a line made of well-formed key="value" pairs separated by a
\* space, read from i on; Malformed if the line is not of that form
RECURSIVE WellFormedPairs(_, _)
WellFormedPairs(line, i) ==
    LET j == find(line, "=", i)
        key == SubSeq(line, i, j - 1)
        e == value_end(line, j + 2)
    IN IF \/ j > Len(line) \/ j = i
          \/ HasChar(key, " ") \/ HasChar(key, "\"")
          \/ SubSeq(line, j + 1, j + 1) # "\""
          \/ e = 0 \/ e = j + 2
       THEN Malformed
       ELSE LET pair == <<key, SubSeq(line, j + 2, e - 1)>>
            IN IF e = Len(line) THEN {pair}
               ELSE IF SubSeq(line, e + 1, e + 1) # " " THEN Malformed
               ELSE LET rest == WellFormedPairs(line, e + 2)
                    IN IF rest = Malformed THEN Malformed ELSE {pair} \cup rest

PairsOfLine(line) ==
    IF WellFormedPairs(line, 1) = Malformed THEN {} ELSE WellFormedPairs(line, 1)

PairsOfReply(reply) == UNION {PairsOfLine(l) : l \in Range(split(reply))}

DistinctKeys(P) == \A x \in P, y \in P : x[1] = y[1] => x = y

PairsOfDict(d) == {<<k, d[k]>> : k \in DOMAIN d}

\* C17: parse returns the mapping that holds exactly the well-formed
\* key="value" pairs of the reply (one or more per line, the value whole, with
\* the escaped quotes it embeds) and nothing for the other lines. (Checked on
\* replies whose pairs have distinct keys, where the order of the lines cannot
\* matter either.)
C17_ParseRecoversPairs ==
    (op.name = "parse" /\ DistinctKeys(PairsOfReply(op.reply))) =>
        PairsOfDict(op.ret) = PairsOfReply(op.reply)

\* ----------------------------------------------------------------------
\* Properties of Connector.send, recv by recv
\* ----------------------------------------------------------------------
\* C21: send() always terminates: a call that waits for the sentinel comes to
\* its end, also when the peer closes the connection before END is received
\* (the reads then return no data).
C21_SendTerminates == (rx.pc = "reading") ~> (rx.pc # "reading")

\* C28: whatever the split of the engine's replies into the chunks recv
\* returns, a send that meets no error returns exactly the body of the
\* engine's reply to its command.
C28_SendReturnsItsReply ==
    (op.name = "send_return" /\ op.read /\ op.depth = 1) =>
        op.ret.text = op.expect

\* C29: when fetch() obtains the metadata of the request on air, a source
\* whose metadata it changes has that request id; when no source has it, no
\* source's metadata changes and fetch raises nothing.
C29_MetadataGoesToOnAirSource ==
    (op.name = "fetch" /\ op.got) =>
        /\ \A i \in CtlSources :
              streamer.metadata[i] # op.before.metadata[i] =>
                  streamer.rid[i] = op.on_air
        /\ (\A i \in CtlSources : streamer.rid[i] # op.on_air) =>
              /\ streamer.metadata = op.before.metadata
              /\ op.raised = ""

====
